---- MODULE Spec2Model ----
(***************************************************************************)
(* Model of src/luigi_pip.py: a luigi pipeline of four tasks               *)
(*   DownloadDataset -> ExtractAndProcessFiles -> TrimProbesTable          *)
(*                   -> DeleteOriginalData                                 *)
(* run by luigi.run(), together with the section parser process_file.      *)
(*                                                                         *)
(* Strings are modelled as sequences of tokens: a token is a bracket, a    *)
(* newline, a file extension, or a run of other characters.  A file or     *)
(* directory name is a sequence of tokens, a path is a sequence of names.  *)
(***************************************************************************)
EXTENDS Naturals, Sequences, FiniteSets, TLC

\* ------------------------------------------------------------------ bounds
MaxMembers == 2
MaxInvocations == 3
MaxLocked == 1
MaxLines == 6
MaxCols == 3
MaxRows == 2

\* ------------------------------------------------------- string operations
NL == "\n"

\* str.startswith(prefix) / str.endswith(suffix) on token sequences
startswith(s, prefix) ==
    /\ Len(s) >= Len(prefix)
    /\ SubSeq(s, 1, Len(prefix)) = prefix

endswith(s, suffix) ==
    /\ Len(s) >= Len(suffix)
    /\ SubSeq(s, Len(s) - Len(suffix) + 1, Len(s)) = suffix

\* str.strip(chars): drop leading and trailing tokens that are in chars
RECURSIVE lstrip(_, _)
lstrip(s, chars) ==
    IF s # <<>> /\ Head(s) \in chars THEN lstrip(Tail(s), chars) ELSE s

RECURSIVE rstrip(_, _)
rstrip(s, chars) ==
    IF s # <<>> /\ s[Len(s)] \in chars
    THEN rstrip(SubSeq(s, 1, Len(s) - 1), chars)
    ELSE s

strip(s, chars) == rstrip(lstrip(s, chars), chars)

\* str.replace(old, new): every occurrence, left to right
RECURSIVE replace(_, _, _)
replace(s, old, new) ==
    IF s = <<>> THEN <<>>
    ELSE IF startswith(s, old)
         THEN new \o replace(SubSeq(s, Len(old) + 1, Len(s)), old, new)
         ELSE <<Head(s)>> \o replace(Tail(s), old, new)

\* ---------------------------------------------------------- os.path
Extensions == {".txt", ".gz", ".tsv", ".tar", ".done"}

\* os.path.join(dir, name)
join(dir, name) == Append(dir, name)

\* os.path.basename / os.path.dirname
basename(p) == p[Len(p)]
dirname(p) == SubSeq(p, 1, Len(p) - 1)

\* os.path.splitext(name)[0]: the name without its last extension
splitext0(name) ==
    IF name # <<>> /\ name[Len(name)] \in Extensions
    THEN SubSeq(name, 1, Len(name) - 1)
    ELSE name

\* p lies strictly below directory d
Under(d, p) == Len(p) > Len(d) /\ SubSeq(p, 1, Len(d)) = d

\* os.makedirs(d, exist_ok=True): d and all its ancestors become directories
makedirs(d, ds) == ds \cup {SubSeq(d, 1, n) : n \in 1..Len(d)}

\* ---------------------------------------------------------- parameters
dataset_id == "GSE68849"
data == <<<<"data">>>>
processed_data == <<<<"processed_data">>>>
probes_data == <<<<"probes_data">>>>
trimmed_probes == <<<<"trimmed_probes">>>>

\* ---------------------------------------------------------- pandas
\* str.split(sep) of a line without its line terminator
RECURSIVE split(_, _)
split(s, sep) ==
    IF \A i \in 1..Len(s) : s[i] # sep THEN <<s>>
    ELSE LET i == CHOOSE j \in 1..Len(s) :
                      s[j] = sep /\ \A k \in 1..(j - 1) : s[k] # sep
         IN <<SubSeq(s, 1, i - 1)>> \o split(SubSeq(s, i + 1, Len(s)), sep)

fields(line) == split(rstrip(line, {NL}), "\t")

\* pd.read_csv(buf, sep='\t', header=header) on a buffer of lines:
\* raises EmptyDataError on an empty buffer; with header='infer' the first
\* line is the column-name row, with header=None every line is data.
read_csv(buf, header) ==
    [ok |-> buf # <<>>,
     df |-> IF buf = <<>> THEN [header_present |-> FALSE, header |-> <<>>, rows |-> <<>>]
            ELSE IF header = "infer"
                 THEN [header_present |-> TRUE,
                       header |-> fields(buf[1]),
                       rows |-> [i \in 1..(Len(buf) - 1) |-> fields(buf[i + 1])]]
                 ELSE [header_present |-> FALSE,
                       header |-> <<>>,
                       rows |-> [i \in 1..Len(buf) |-> fields(buf[i])]]]

\* variant: an assignment to an existing key moves the key to the end
RECURSIVE DictWithout(_, _)
DictWithout(d, k) ==
    IF d = <<>> THEN <<>>
    ELSE IF Head(d).key = k THEN DictWithout(Tail(d), k)
    ELSE <<Head(d)>> \o DictWithout(Tail(d), k)

DictSetMoveToEnd(d, k, v) == Append(DictWithout(d, k), [key |-> k, df |-> v])

\* dict item assignment d[k] = v: an existing key keeps its position,
\* a new key is appended (insertion order)
DictSet(d, k, v) ==
    IF \E i \in 1..Len(d) : d[i].key = k
    THEN [i \in 1..Len(d) |-> IF d[i].key = k THEN [key |-> k, df |-> v] ELSE d[i]]
    ELSE Append(d, [key |-> k, df |-> v])

DictKeys(d) == [i \in 1..Len(d) |-> d[i].key]

\* subsequence of s without the positions in P
RECURSIVE RemoveAt(_, _)
RemoveAt(s, P) ==
    IF s = <<>> THEN <<>>
    ELSE LET rest == RemoveAt(SubSeq(s, 1, Len(s) - 1), P) IN
         IF Len(s) \in P THEN rest ELSE Append(rest, s[Len(s)])

\* DataFrame.drop(columns=[name]): the column labelled name leaves the
\* header and every row; with errors='raise' an absent label is a KeyError
DropColumn(r, name, errors) ==
    LET P == {i \in 1..Len(r.df.header) : r.df.header[i] = name} IN
    IF P = {} THEN [r EXCEPT !.ok = r.ok /\ errors = "ignore"]
    ELSE [r EXCEPT !.df.header = RemoveAt(r.df.header, P),
                   !.df.rows = [i \in 1..Len(r.df.rows) |-> RemoveAt(r.df.rows[i], P)]]

\* DataFrame.drop(columns=columns, errors=errors)
RECURSIVE DropColumns(_, _, _)
DropColumns(r, columns, errors) ==
    IF columns = <<>> THEN r
    ELSE DropColumns(DropColumn(r, Head(columns), errors), Tail(columns), errors)

drop(df, columns, errors) == DropColumns([ok |-> TRUE, df |-> df], columns, errors)

\* the list columns_to_remove of TrimProbesTable.run
columns_to_remove ==
    << <<"Definition">>, <<"Ontology_Component">>, <<"Ontology_Process">>,
       <<"Ontology_Function">>, <<"Synonyms">>, <<"Obsolete_Probe_Id">>,
       <<"Probe_Sequence">> >>

\* variant: drop without errors='ignore'
TrimTableStrict(df) == drop(df, columns_to_remove, "raise")

\* probes_df.drop(columns=columns_to_remove, errors='ignore')
TrimTable(df) == drop(df, columns_to_remove, "ignore")

\* ---------------------------------------------------------- process_file
None == <<"<None>">>
Heading == <<"Heading">>

\* Python truth value of write_key: None and '' are false
Truthy(k) == k # None /\ k # <<>>

\* state of the parsing loop of process_file before the first line
ParserInit ==
    [write_key |-> None, fio |-> <<>>, dfs |-> <<>>, ok |-> TRUE, finalized |-> <<>>]

\* the header argument chosen when a section is closed by a header line
HeaderArgAtHeaderLine(key) == IF key = Heading THEN "None" ELSE "infer"

\* the header argument used when the last section is closed at end of file
HeaderArgAtEof(key) == "infer"

\* close the current section: parse the buffer and store it under write_key
Finalize(st, header, at) ==
    LET r == read_csv(st.fio, header) IN
    [st EXCEPT !.ok = r.ok,
               !.dfs = IF r.ok THEN DictSet(st.dfs, st.write_key, r.df) ELSE st.dfs,
               !.finalized = Append(st.finalized,
                                    [name |-> st.write_key, header |-> header,
                                     at |-> at, ok |-> r.ok, buf |-> st.fio])]

\* variant: the buffer is not replaced when a new section starts
LineStepCarryOver(st, line) ==
    IF startswith(line, <<"[">>)
    THEN LET st1 == IF Truthy(st.write_key)
                    THEN Finalize(st, HeaderArgAtHeaderLine(st.write_key), "header")
                    ELSE st
         IN IF st1.ok
            THEN [st1 EXCEPT !.write_key = strip(line, {"[", "]", NL})]
            ELSE st1
    ELSE IF Truthy(st.write_key)
         THEN [st EXCEPT !.fio = Append(st.fio, line)]
         ELSE st

\* one iteration of the loop over f.readlines()
LineStep(st, line) ==
    IF startswith(line, <<"[">>)
    THEN LET st1 == IF Truthy(st.write_key)
                    THEN Finalize(st, HeaderArgAtHeaderLine(st.write_key), "header")
                    ELSE st
         IN IF st1.ok
            THEN [st1 EXCEPT !.fio = <<>>,
                             !.write_key = strip(line, {"[", "]", NL})]
            ELSE st1
    ELSE IF Truthy(st.write_key)
         THEN [st EXCEPT !.fio = Append(st.fio, line)]
         ELSE st

\* after the loop: the last section
EofStep(st) ==
    IF Truthy(st.write_key)
    THEN Finalize(st, HeaderArgAtEof(st.write_key), "eof")
    ELSE st

\* the parsing part of process_file on the lines of a file
RECURSIVE ParseLines(_, _)
ParseLines(st, ls) ==
    IF ~st.ok THEN st
    ELSE IF ls = <<>> THEN EofStep(st)
    ELSE ParseLines(LineStep(st, Head(ls)), Tail(ls))

ParseFile(ls) == ParseLines(ParserInit, ls)

\* ---------------------------------------------------------- tasks
Classes == {"DownloadDataset", "ExtractAndProcessFiles", "TrimProbesTable",
            "DeleteOriginalData"}

NoParam == <<>>

\* task instances: the class and the values of its directory parameters
DownloadDataset(download_dir) ==
    [cls |-> "DownloadDataset", download_dir |-> download_dir,
     processed_data_dir |-> NoParam, output_dir |-> NoParam]

ExtractAndProcessFiles(download_dir, output_dir) ==
    [cls |-> "ExtractAndProcessFiles", download_dir |-> download_dir,
     processed_data_dir |-> NoParam, output_dir |-> output_dir]

TrimProbesTable(download_dir, processed_data_dir, output_dir) ==
    [cls |-> "TrimProbesTable", download_dir |-> download_dir,
     processed_data_dir |-> processed_data_dir, output_dir |-> output_dir]

DeleteOriginalData(download_dir, processed_data_dir, output_dir) ==
    [cls |-> "DeleteOriginalData", download_dir |-> download_dir,
     processed_data_dir |-> processed_data_dir, output_dir |-> output_dir]

\* requires(): the tasks a task depends on; only dataset_id (and for
\* ExtractAndProcessFiles also download_dir) is handed on, every other
\* parameter of the required task takes its default
DeleteRequiresExtract(t) == {ExtractAndProcessFiles(data, processed_data)}

DeleteRequires(t) == {TrimProbesTable(data, processed_data, probes_data)}

TrimRequires(t) == {ExtractAndProcessFiles(data, processed_data)}

ExtractRequires(t) == {DownloadDataset(t.download_dir)}

requires(t) ==
    CASE t.cls = "DeleteOriginalData" -> DeleteRequires(t)
      [] t.cls = "TrimProbesTable" -> TrimRequires(t)
      [] t.cls = "ExtractAndProcessFiles" -> ExtractRequires(t)
      [] OTHER -> {}

\* output(): the path of the task's Target
DownloadOutput(t) == join(t.download_dir, <<dataset_id, "_RAW", ".tar">>)

ExtractOutput(t) == t.output_dir

TrimOutput(t) == join(t.output_dir, <<"Probes_files", ".tsv">>)

DeleteOutput(t) == join(t.processed_data_dir, <<"delete_original_data", ".done">>)

output(t) ==
    CASE t.cls = "DeleteOriginalData" -> DeleteOutput(t)
      [] t.cls = "TrimProbesTable" -> TrimOutput(t)
      [] t.cls = "ExtractAndProcessFiles" -> ExtractOutput(t)
      [] OTHER -> DownloadOutput(t)

\* LocalTarget.exists(): os.path.exists, a file or a directory
exists(fs, p) == p \in fs.dirs \/ p \in fs.files

\* Task.complete(): the Target exists
complete(fs, t) == exists(fs, output(t))

\* ---------------------------------------------------------- archives
HeadingLine == <<"[", "Heading", "]", NL>>
ProbesLine == <<"[", "Probes", "]", NL>>
ControlsLine == <<"[", "Controls", "]", NL>>
EmptyNameLine == <<"[", "]", NL>>
ValueLine == <<"X", NL>>
ColumnsLine == <<"ID", "\t", "Definition", NL>>
RowLine == <<"1", "\t", "foo", NL>>

\* the members an archive is made of
GoodMember ==
    [name |-> <<"m1", ".txt", ".gz">>,
     content |-> <<HeadingLine, ValueLine, ProbesLine, ColumnsLine, RowLine>>]

BadMember ==
    [name |-> <<"m2", ".txt", ".gz">>,
     content |-> <<HeadingLine, ProbesLine, ColumnsLine>>]

ControlsMember ==
    [name |-> <<"m3", ".txt", ".gz">>,
     content |-> <<ControlsLine, ColumnsLine, RowLine>>]

OtherMember ==
    [name |-> <<"readme", ".txt">>, content |-> <<ValueLine>>]

ProbesMember ==
    [name |-> <<"m4", ".txt", ".gz">>,
     content |-> <<ProbesLine, ColumnsLine, RowLine>>]

Members == {GoodMember, BadMember, ControlsMember, OtherMember, ProbesMember}

\* an archive: up to MaxMembers different members in some order
Archives ==
    {a \in UNION {[1..n -> Members] : n \in 0..MaxMembers} :
        \A i, j \in 1..Len(a) : i # j => a[i] # a[j]}

\* what wget.download does: it raises, or it stores an archive
Fetches == {[ok |-> FALSE, archive |-> <<>>]}
           \cup {[ok |-> TRUE, archive |-> a] : a \in Archives}

\* ---------------------------------------------------------- run methods
\* A run method maps the filesystem fs = [dirs, files, tar] (tar: the
\* members of the downloaded archive) to [ok, fs, read]: ok is FALSE when
\* the method raises, fs is the filesystem it leaves behind, read is the
\* path the method takes its input from.

\* DownloadDataset.run
DownloadRun(t, fs, fetched) ==
    LET ds == makedirs(t.download_dir, fs.dirs) IN
    IF fetched.ok
    THEN [ok |-> TRUE,
          fs |-> [dirs |-> ds, files |-> fs.files \cup {DownloadOutput(t)},
                  tar |-> fetched.archive],
          read |-> NoParam]
    ELSE [ok |-> FALSE, fs |-> [fs EXCEPT !.dirs = ds], read |-> NoParam]

\* ExtractAndProcessFiles.process_file: parse, then write one file per section
process_file(file_path, content, fs) ==
    LET parsed == ParseFile(content)
        keys == DictKeys(parsed.dfs)
        stem == splitext0(basename(file_path))
        written == {join(dirname(file_path), stem \o <<"_">> \o keys[i] \o <<".tsv">>) :
                       i \in 1..Len(keys)}
    IN IF parsed.ok
       THEN [ok |-> TRUE, fs |-> [fs EXCEPT !.files = fs.files \cup written]]
       ELSE [ok |-> FALSE, fs |-> fs]

\* the loop of ExtractAndProcessFiles.run over tar.getmembers()
RECURSIVE ExtractMembers(_, _, _)
ExtractMembers(t, fs, members) ==
    IF members = <<>> THEN [ok |-> TRUE, fs |-> fs]
    ELSE LET member == Head(members) IN
         IF endswith(member.name, <<".txt", ".gz">>)
         THEN LET member_name == splitext0(member.name)
                  extraction_dir == join(t.output_dir, member_name)
                  output_file_path == join(extraction_dir, member_name)
                  fs1 == [fs EXCEPT !.dirs = makedirs(extraction_dir, fs.dirs),
                                    !.files = fs.files \cup {output_file_path}]
                  r == process_file(output_file_path, member.content, fs1)
              IN IF r.ok THEN ExtractMembers(t, r.fs, Tail(members)) ELSE r
         ELSE ExtractMembers(t, fs, Tail(members))

\* variant: the archive is deleted once its members are extracted
ExtractRunRemovingArchive(t, fs) ==
    LET fs1 == [fs EXCEPT !.dirs = makedirs(t.output_dir, fs.dirs)]
        tar_path == DownloadOutput(CHOOSE d \in ExtractRequires(t) : TRUE)
        r == ExtractMembers(t, fs1, fs.tar)
    IN IF tar_path \notin fs.files
       THEN [ok |-> FALSE, fs |-> fs1, read |-> tar_path]
       ELSE [ok |-> r.ok,
             fs |-> [r.fs EXCEPT !.files = r.fs.files \ {tar_path}, !.tar = <<>>],
             read |-> tar_path]

\* ExtractAndProcessFiles.run
ExtractRun(t, fs) ==
    LET fs1 == [fs EXCEPT !.dirs = makedirs(t.output_dir, fs.dirs)]
        tar_path == DownloadOutput(CHOOSE d \in ExtractRequires(t) : TRUE)
        r == ExtractMembers(t, fs1, fs.tar)
    IN IF tar_path \notin fs.files
       THEN [ok |-> FALSE, fs |-> fs1, read |-> tar_path]
       ELSE [ok |-> r.ok, fs |-> r.fs, read |-> tar_path]

\* the files TrimProbesTable.run collects in probes_files
ProbesFiles(t, fs) ==
    {f \in fs.files :
        /\ Under(t.processed_data_dir, f)
        /\ endswith(basename(f), <<"_", "Probes", ".tsv">>)}

\* trimmed_file_path for one probes file
TrimmedFilePath(t, f) ==
    join(dirname(TrimOutput(t)),
         replace(basename(f), <<"_", "Probes", ".tsv">>,
                 <<"_trimmed", "_", "Probes", ".tsv">>))

\* variant: the sentinel is written although no probes file was found
TrimRunWithoutCheck(t, fs, processed) ==
    [ok |-> TRUE,
     fs |-> [fs EXCEPT !.dirs = makedirs(t.output_dir, fs.dirs),
                       !.files = fs.files \cup {TrimOutput(t)}],
     read |-> t.processed_data_dir]

\* variant: the sentinel is written before the loop over probes_files
TrimRunSentinelFirst(t, fs, processed) ==
    LET ds == makedirs(t.output_dir, fs.dirs)
        probes_files == ProbesFiles(t, fs)
        trimmed == {TrimmedFilePath(t, f) : f \in processed}
    IN IF probes_files = {}
       THEN [ok |-> FALSE, fs |-> [fs EXCEPT !.dirs = ds], read |-> t.processed_data_dir]
       ELSE [ok |-> processed = probes_files,
             fs |-> [fs EXCEPT !.dirs = ds,
                               !.files = fs.files \cup trimmed \cup {TrimOutput(t)}],
             read |-> t.processed_data_dir]

\* TrimProbesTable.run; processed: the probes files the loop gets through,
\* all of them unless reading or writing a table raises an I/O error
TrimRun(t, fs, processed) ==
    LET ds == makedirs(t.output_dir, fs.dirs)
        probes_files == ProbesFiles(t, fs)
        trimmed == {TrimmedFilePath(t, f) : f \in processed}
    IN IF probes_files = {}
       THEN [ok |-> FALSE, fs |-> [fs EXCEPT !.dirs = ds], read |-> t.processed_data_dir]
       ELSE IF processed # probes_files
       THEN [ok |-> FALSE,
             fs |-> [fs EXCEPT !.dirs = ds, !.files = fs.files \cup trimmed],
             read |-> t.processed_data_dir]
       ELSE [ok |-> TRUE,
             fs |-> [fs EXCEPT !.dirs = ds,
                               !.files = fs.files \cup trimmed \cup {TrimOutput(t)}],
             read |-> t.processed_data_dir]

\* os.walk(top, topdown=False) as the order of the directories below top:
\* a directory comes after every directory below it
RECURSIVE BottomUp(_)
BottomUp(ds) ==
    IF ds = {} THEN <<>>
    ELSE LET d == CHOOSE x \in ds : \A y \in ds : Len(y) <= Len(x)
         IN <<d>> \o BottomUp(ds \ {d})

\* os.rmdir(d) in a try block: removes d when it is empty, else no effect
rmdir(d, fs) ==
    IF d \in fs.dirs /\ ~\E p \in fs.dirs \cup fs.files : Under(d, p)
    THEN [fs EXCEPT !.dirs = fs.dirs \ {d}]
    ELSE fs

\* the loop of DeleteOriginalData.run over the directories, bottom-up
RECURSIVE RemoveDirs(_, _)
RemoveDirs(seq, fs) ==
    IF seq = <<>> THEN fs ELSE RemoveDirs(Tail(seq), rmdir(Head(seq), fs))

\* variant: os.remove outside a try block, a locked file ends the loop
RemoveFilesUnguarded(items, fs, lockedFiles) ==
    IF \E f \in items : f \in fs.files /\ f \in lockedFiles
    THEN fs
    ELSE [fs EXCEPT !.files = fs.files \ items,
                    !.tar = IF \E f \in items : endswith(basename(f), <<"_RAW", ".tar">>)
                            THEN <<>> ELSE fs.tar]

\* the loop of DeleteOriginalData.run over original_items: os.remove in a
\* try block; removing a locked file raises and is logged
RemoveFiles(items, fs, lockedFiles) ==
    LET removed == {f \in items : f \in fs.files /\ f \notin lockedFiles} IN
    [fs EXCEPT !.files = fs.files \ removed,
               !.tar = IF \E f \in removed : endswith(basename(f), <<"_RAW", ".tar">>)
                       THEN <<>> ELSE fs.tar]

\* the body of DeleteOriginalData.run for the directory top it walks
Cleanup(top, fs, lockedFiles) ==
    LET original_items == {p \in fs.dirs \cup fs.files : Under(top, p)}
    IN IF original_items = {}
       THEN [ok |-> TRUE, fs |-> fs, read |-> top]
       ELSE LET fs1 == RemoveFiles(original_items, fs, lockedFiles)
                fs2 == RemoveDirs(BottomUp({d \in fs1.dirs : Under(top, d)}), fs1)
            IN [ok |-> TRUE, fs |-> rmdir(top, fs2), read |-> top]

\* variant: the walk starts at download_dir
DeleteRunDownloadDir(t, fs, lockedFiles) == Cleanup(t.download_dir, fs, lockedFiles)

\* DeleteOriginalData.run
DeleteRun(t, fs, lockedFiles) == Cleanup(t.processed_data_dir, fs, lockedFiles)

\* ---------------------------------------------------------- state
VARIABLES
    dirs,       \* the directories that exist
    files,      \* the regular files that exist
    tar,        \* the members of the archive file, <<>> when there is none
    locked,     \* the paths of files that cannot be deleted
    root,       \* the task luigi.run() is started with
    phase,      \* "idle" between invocations, "running" within one
    status,     \* per task class: "none", "pending", "done" or "failed"
    runlog,     \* the run methods called in this invocation, in order
    hist,       \* one summary per finished invocation
    lines,      \* process_file: the lines not yet read
    write_key,  \* process_file: write_key
    fio,        \* process_file: the lines written to fio
    dfs,        \* process_file: dfs
    finalized,  \* process_file: the read_csv calls made so far
    ppc,        \* process_file: "off", "loop", "done" or "raised"
    file_lines, \* process_file: all lines of the file, as f.readlines() returns them
    probes_df,  \* TrimProbesTable.run: the table read from one probes file
    trimmed_probes_df,  \* TrimProbesTable.run: the result of drop, [ok, df]
    tpc         \* TrimProbesTable.run on one table: "off", "read" or "written"

fsvars == <<dirs, files, tar, locked>>
schedvars == <<root, phase, status, runlog, hist>>
parservars == <<lines, write_key, fio, dfs, finalized, ppc, file_lines>>
trimvars == <<probes_df, trimmed_probes_df, tpc>>
vars == <<dirs, files, tar, locked, root, phase, status, runlog, hist,
          lines, write_key, fio, dfs, finalized, ppc, file_lines,
          probes_df, trimmed_probes_df, tpc>>

FS == [dirs |-> dirs, files |-> files, tar |-> tar]

\* the values the parameter processed_data_dir of the root task takes
DirParams == {processed_data, probes_data, data}

\* the tasks luigi.run() is started with
Roots == {DeleteOriginalData(data, d, trimmed_probes) : d \in DirParams}
         \cup {TrimProbesTable(data, d, probes_data) : d \in DirParams}

\* the files that may be locked against deletion
LockCandidates ==
    {processed_data \o <<<<"m1", ".txt">>, <<"m1", "_", "Probes", ".tsv">>>>,
     processed_data \o <<<<"m3", ".txt">>, <<"m3", ".txt">>>>,
     probes_data \o <<<<"m1", "_trimmed", "_", "Probes", ".tsv">>>>}

ParserOff ==
    /\ lines = <<>>
    /\ write_key = None
    /\ fio = <<>>
    /\ dfs = <<>>
    /\ finalized = <<>>
    /\ ppc = "off"
    /\ file_lines = <<>>

NoTable == [header_present |-> FALSE, header |-> <<>>, rows |-> <<>>]

TrimOff ==
    /\ probes_df = NoTable
    /\ trimmed_probes_df = [ok |-> TRUE, df |-> NoTable]
    /\ tpc = "off"

\* the state of the pipeline before anything has run
PipelineOff ==
    /\ dirs = {}
    /\ files = {}
    /\ tar = <<>>
    /\ locked = {}
    /\ root = DeleteOriginalData(data, processed_data, trimmed_probes)
    /\ phase = "idle"
    /\ status = [c \in Classes |-> "none"]
    /\ runlog = <<>>
    /\ hist = <<>>

Init ==
    /\ dirs = {}
    /\ files = {}
    /\ tar = <<>>
    /\ locked \in {L \in SUBSET LockCandidates : Cardinality(L) <= MaxLocked}
    /\ root \in Roots
    /\ phase = "idle"
    /\ status = [c \in Classes |-> "none"]
    /\ runlog = <<>>
    /\ hist = <<>>
    /\ ParserOff
    /\ TrimOff

\* ---------------------------------------------------------- luigi.run()
\* the one task a task requires (every task of this pipeline has at most one)
Dep(t) == CHOOSE d \in requires(t) : TRUE

\* the tasks reachable from t through requires()
RECURSIVE Chain(_)
Chain(t) == {t} \cup (IF requires(t) = {} THEN {} ELSE Chain(Dep(t)))

TaskOf(cls) == CHOOSE t \in Chain(root) : t.cls = cls

\* Worker.add: a complete task is DONE and its requirements are not
\* visited; an incomplete task is PENDING and its requirements are added
RECURSIVE Schedule(_, _, _)
Schedule(t, fs, st) ==
    IF complete(fs, t) THEN [st EXCEPT ![t.cls] = "done"]
    ELSE LET st1 == [st EXCEPT ![t.cls] = "pending"] IN
         IF requires(t) = {} THEN st1 ELSE Schedule(Dep(t), fs, st1)

\* variant: a task is handed out although what it requires has failed
RunnableAfterFailure(cls) ==
    /\ phase = "running"
    /\ status[cls] = "pending"
    /\ \A d \in requires(TaskOf(cls)) : status[d.cls] \in {"done", "failed"}

\* the scheduler hands out a PENDING task once all it requires is DONE
Runnable(cls) ==
    /\ phase = "running"
    /\ status[cls] = "pending"
    /\ \A d \in requires(TaskOf(cls)) : status[d.cls] = "done"

\* TaskProcess.run: a task whose requirement is not complete at run time
\* fails without its run method being called
Unfulfilled(cls) == \E d \in requires(TaskOf(cls)) : ~complete(FS, d)

StartInvocation ==
    /\ phase = "idle"
    /\ Len(hist) < MaxInvocations
    /\ phase' = "running"
    /\ status' = Schedule(root, FS, [c \in Classes |-> "none"])
    /\ runlog' = <<>>
    /\ UNCHANGED <<fsvars, root, hist, parservars, trimvars>>

\* the call of a task's run method with result r
Execute(cls, r) ==
    /\ dirs' = r.fs.dirs
    /\ files' = r.fs.files
    /\ tar' = r.fs.tar
    /\ status' = [status EXCEPT ![cls] = IF r.ok THEN "done" ELSE "failed"]
    /\ runlog' = Append(runlog, [cls |-> cls, ok |-> r.ok, before |-> FS, after |-> r.fs,
                                 read |-> r.read])
    /\ UNCHANGED <<locked, root, phase, hist, parservars, trimvars>>

Fail(cls) ==
    /\ status' = [status EXCEPT ![cls] = "failed"]
    /\ UNCHANGED <<fsvars, root, phase, runlog, hist, parservars, trimvars>>

RunDownload ==
    /\ Runnable("DownloadDataset")
    /\ \E fetched \in Fetches :
          Execute("DownloadDataset", DownloadRun(TaskOf("DownloadDataset"), FS, fetched))

RunExtract ==
    /\ Runnable("ExtractAndProcessFiles")
    /\ IF Unfulfilled("ExtractAndProcessFiles")
       THEN Fail("ExtractAndProcessFiles")
       ELSE Execute("ExtractAndProcessFiles",
                    ExtractRun(TaskOf("ExtractAndProcessFiles"), FS))

RunTrim ==
    /\ Runnable("TrimProbesTable")
    /\ IF Unfulfilled("TrimProbesTable")
       THEN Fail("TrimProbesTable")
       ELSE \E processed \in SUBSET ProbesFiles(TaskOf("TrimProbesTable"), FS) :
                Execute("TrimProbesTable",
                        TrimRun(TaskOf("TrimProbesTable"), FS, processed))

RunDelete ==
    /\ Runnable("DeleteOriginalData")
    /\ IF Unfulfilled("DeleteOriginalData")
       THEN Fail("DeleteOriginalData")
       ELSE Execute("DeleteOriginalData",
                    DeleteRun(TaskOf("DeleteOriginalData"), FS, locked))

\* luigi.run() returns when no task can be handed out any more
EndInvocation ==
    /\ phase = "running"
    /\ \A c \in Classes : ~Runnable(c)
    /\ phase' = "idle"
    /\ hist' = Append(hist, [ok |-> \A c \in Classes : status[c] \in {"none", "done"},
                             ran |-> [i \in 1..Len(runlog) |-> runlog[i].cls]])
    /\ UNCHANGED <<fsvars, root, status, runlog, parservars, trimvars>>

Next ==
    \/ StartInvocation
    \/ RunDownload
    \/ RunExtract
    \/ RunTrim
    \/ RunDelete
    \/ EndInvocation

Spec == Init /\ [][Next]_vars

\* ---------------------------------------------------------- process_file, line by line
\* the lines a parsed file is made of
LineSet == {HeadingLine, ProbesLine, EmptyNameLine, ValueLine, ColumnsLine}

InputFiles == UNION {[1..n -> LineSet] : n \in 0..MaxLines}

PS == [write_key |-> write_key, fio |-> fio, dfs |-> dfs, ok |-> TRUE,
       finalized |-> finalized]

InitParser ==
    /\ PipelineOff
    /\ TrimOff
    /\ file_lines \in InputFiles
    /\ lines = file_lines
    /\ write_key = ParserInit.write_key
    /\ fio = ParserInit.fio
    /\ dfs = ParserInit.dfs
    /\ finalized = ParserInit.finalized
    /\ ppc = "loop"

\* the parser moves to state st; a failed read_csv raises out of process_file
ParserMove(st, rest) ==
    /\ write_key' = st.write_key
    /\ fio' = st.fio
    /\ dfs' = st.dfs
    /\ finalized' = st.finalized
    /\ lines' = rest
    /\ ppc' = IF st.ok THEN "loop" ELSE "raised"
    /\ UNCHANGED <<file_lines, fsvars, schedvars, trimvars>>

ReadHeaderLine ==
    /\ ppc = "loop"
    /\ lines # <<>>
    /\ startswith(Head(lines), <<"[">>)
    /\ ParserMove(LineStep(PS, Head(lines)), Tail(lines))

ReadDataLine ==
    /\ ppc = "loop"
    /\ lines # <<>>
    /\ ~startswith(Head(lines), <<"[">>)
    /\ ParserMove(LineStep(PS, Head(lines)), Tail(lines))

EndOfFile ==
    /\ ppc = "loop"
    /\ lines = <<>>
    /\ LET st == EofStep(PS) IN
       /\ write_key' = st.write_key
       /\ fio' = st.fio
       /\ dfs' = st.dfs
       /\ finalized' = st.finalized
       /\ ppc' = IF st.ok THEN "done" ELSE "raised"
       /\ UNCHANGED <<lines, file_lines, fsvars, schedvars, trimvars>>

NextParser ==
    \/ ReadHeaderLine
    \/ ReadDataLine
    \/ EndOfFile

SpecParser == InitParser /\ [][NextParser]_vars

\* ---------------------------------------------------------- DeleteOriginalData.run on a given tree
\* the directories and files a tree is made of
TreeDirs ==
    {data, processed_data, processed_data \o <<<<"m1", ".txt">>>>, probes_data}

TreeFiles ==
    {join(data, <<dataset_id, "_RAW", ".tar">>),
     processed_data \o <<<<"m1", ".txt">>, <<"m1", ".txt">>>>,
     processed_data \o <<<<"m1", ".txt">>, <<"m1", "_", "Probes", ".tsv">>>>,
     probes_data \o <<<<"m1", "_trimmed", "_", "Probes", ".tsv">>>>,
     probes_data \o <<<<"Probes_files", ".tsv">>>>}

\* DeleteOriginalData.run is about to be called on some tree
InitCleanup ==
    /\ dirs \in {D \in SUBSET TreeDirs :
                    \A d \in D : Len(d) > 1 => dirname(d) \in D}
    /\ files \in {F \in SUBSET TreeFiles : \A f \in F : dirname(f) \in dirs}
    /\ tar = IF join(data, <<dataset_id, "_RAW", ".tar">>) \in files
             THEN <<GoodMember>> ELSE <<>>
    /\ locked \in {L \in SUBSET LockCandidates : Cardinality(L) <= MaxLocked}
    /\ root \in {DeleteOriginalData(data, d, trimmed_probes) : d \in DirParams}
    /\ phase = "running"
    /\ status = [c \in Classes |->
                    IF c = "DeleteOriginalData" THEN "pending" ELSE "done"]
    /\ runlog = <<>>
    /\ hist = <<>>
    /\ ParserOff
    /\ TrimOff

CleanupRun ==
    /\ phase = "running"
    /\ status["DeleteOriginalData"] = "pending"
    /\ Execute("DeleteOriginalData", DeleteRun(root, FS, locked))

NextCleanup == CleanupRun

SpecCleanup == InitCleanup /\ [][NextCleanup]_vars

\* ---------------------------------------------------------- drop on one table
\* column names and field values of the tables TrimProbesTable.run reads
ColumnNames == {<<"ID">>, <<"Symbol">>, <<"Definition">>, <<"Synonyms">>}
Values == {<<"a">>, <<"b">>}

\* the tables pd.read_csv returns: distinct column names, every row as
\* long as the header
Tables ==
    UNION {UNION {
        {[header_present |-> TRUE, header |-> h, rows |-> rs] :
            h \in {x \in [1..n -> ColumnNames] : \A i, j \in 1..n : i # j => x[i] # x[j]},
            rs \in [1..m -> [1..n -> Values]]} :
        m \in 0..MaxRows} : n \in 1..MaxCols}

InitTrim ==
    /\ PipelineOff
    /\ ParserOff
    /\ probes_df \in Tables
    /\ trimmed_probes_df = [ok |-> TRUE, df |-> NoTable]
    /\ tpc = "read"

\* TrimProbesTable.run, body of the loop: drop the columns of one table
DropFromTable ==
    /\ tpc = "read"
    /\ trimmed_probes_df' = TrimTable(probes_df)
    /\ tpc' = "written"
    /\ UNCHANGED <<probes_df, fsvars, schedvars, parservars>>

NextTrim == DropFromTable

SpecTrim == InitTrim /\ [][NextTrim]_vars

\* ---------------------------------------------------------- properties
Log == {runlog[i] : i \in 1..Len(runlog)}

ArchivePath == join(data, <<dataset_id, "_RAW", ".tar">>)
TrimSentinel == join(probes_data, <<"Probes_files", ".tsv">>)
IsProbesFile(f) == endswith(basename(f), <<"_", "Probes", ".tsv">>)
IsTrimmedTable(f) == endswith(basename(f), <<"_trimmed", "_", "Probes", ".tsv">>)

\* C1: after an invocation in which every task succeeded, the next
\* invocation with the same root task calls no run method at all (stated
\* for the chain started with its default directories).
C1_SecondInvocationRunsNothing ==
    root = DeleteOriginalData(data, processed_data, trimmed_probes)
        => \A i \in 2..Len(hist) : hist[i - 1].ok => hist[i].ran = <<>>

\* C2: whenever a run method returns without raising, the Target of its
\* task exists afterwards.
C2_RunLeavesOwnTarget ==
    \A e \in Log : e.ok => exists(e.after, output(TaskOf(e.cls)))

\* C3: when ExtractAndProcessFiles.run raises, the Target of
\* ExtractAndProcessFiles does not exist afterwards, so the task is not
\* taken for complete.
C3_FailedExtractIsNotComplete ==
    \A e \in Log :
        (e.cls = "ExtractAndProcessFiles" /\ ~e.ok)
            => ~exists(e.after, ExtractOutput(TaskOf("ExtractAndProcessFiles")))

\* the Target of DeleteOriginalData exists in no reachable state: no run
\* method creates it
DeleteTargetNeverExists == ~exists(FS, DeleteOutput(root))

\* C5: a run method is called only while the Target of its own task is
\* absent and the Target of the task before it in the chain exists: the
\* archive for ExtractAndProcessFiles, the processed-data directory for
\* TrimProbesTable, the sentinel of TrimProbesTable for DeleteOriginalData.
C5_RunOnlyWhenDue ==
    \A e \in Log :
        /\ ~exists(e.before, output(TaskOf(e.cls)))
        /\ e.cls = "ExtractAndProcessFiles" => ArchivePath \in e.before.files
        /\ e.cls = "TrimProbesTable" => processed_data \in e.before.dirs
        /\ e.cls = "DeleteOriginalData" => TrimSentinel \in e.before.files

\* C5 witness: in a later invocation DeleteOriginalData has been run while
\* TrimProbesTable, whose Target existed, was skipped
C5_Witness ==
    /\ Len(hist) >= 1
    /\ status["TrimProbesTable"] = "done"
    /\ \E e \in Log : e.cls = "DeleteOriginalData"
    /\ ~\E e \in Log : e.cls = "TrimProbesTable"

\* C6: once a run method has raised, no further run method is called in
\* that invocation, and the Target of every task upstream of the failed
\* one that was done still exists.
C6_FailureStopsTheChain ==
    \A i \in 1..Len(runlog) :
        ~runlog[i].ok =>
            /\ i = Len(runlog)
            /\ \A u \in Chain(TaskOf(runlog[i].cls)) :
                  (u.cls # runlog[i].cls /\ status[u.cls] = "done")
                      => complete(FS, u)

\* C6 witness: TrimProbesTable.run raised after ExtractAndProcessFiles.run
\* had succeeded, and the invocation is over
C6_Witness ==
    /\ phase = "idle"
    /\ status["DeleteOriginalData"] = "pending"
    /\ Len(runlog) >= 2
    /\ runlog[Len(runlog)].cls = "TrimProbesTable"
    /\ ~runlog[Len(runlog)].ok
    /\ runlog[Len(runlog) - 1].ok

\* no file named *_Probes.tsv lies below the processed-data directory
\* TrimProbesTable is given
NoProbesFiles(fs) ==
    ~\E f \in fs.files :
        Under(TaskOf("TrimProbesTable").processed_data_dir, f) /\ IsProbesFile(f)

\* C7: when TrimProbesTable.run is called and no *_Probes.tsv file lies
\* below the processed-data directory, it raises and creates no file.
C7_NoProbesNoOutput ==
    \A e \in Log :
        (e.cls = "TrimProbesTable" /\ NoProbesFiles(e.before))
            => (~e.ok /\ e.after.files = e.before.files)

\* C7 witness: TrimProbesTable.run was called on a processed-data
\* directory that holds files but no *_Probes.tsv file
C7_Witness ==
    \E e \in Log :
        /\ e.cls = "TrimProbesTable"
        /\ NoProbesFiles(e.before)
        /\ \E f \in e.before.files :
              Under(TaskOf("TrimProbesTable").processed_data_dir, f)

\* C8: DeleteOriginalData.run removes no trimmed table.
C8_CleanupKeepsTrimmedTables ==
    \A e \in Log :
        e.cls = "DeleteOriginalData"
            => \A f \in e.before.files : IsTrimmedTable(f) => f \in e.after.files

\* C9: DeleteOriginalData.run never raises; it deletes every file below its
\* directory that is not locked, and removes every directory (its own
\* included) that had content before and holds no file afterwards.
C9_CleanupTolerance ==
    \A e \in Log :
        e.cls = "DeleteOriginalData" =>
            LET top == TaskOf("DeleteOriginalData").processed_data_dir IN
            /\ e.ok
            /\ \A f \in e.before.files :
                  (Under(top, f) /\ f \notin locked) => f \notin e.after.files
            /\ \A d \in e.before.dirs :
                  ( /\ d = top \/ Under(top, d)
                    /\ \E p \in e.before.dirs \cup e.before.files : Under(d, p)
                    /\ ~\E f \in e.after.files : Under(d, f) )
                  => d \notin e.after.dirs

\* C9 witness: a cleanup met a locked file, deleted another file and
\* removed a directory
C9_Witness ==
    \E e \in Log :
        /\ e.cls = "DeleteOriginalData"
        /\ \E f \in locked : f \in e.before.files /\ f \in e.after.files
        /\ e.before.files \ e.after.files # {}
        /\ e.before.dirs \ e.after.dirs # {}

\* C10: every section that is parsed into a table is parsed without a
\* header row exactly when its name is Heading, whether it is closed by a
\* header line or by the end of file.
C10_HeadingIsHeaderless ==
    \A i \in 1..Len(finalized) :
        finalized[i].ok =>
            ((finalized[i].header = "None") <=> (finalized[i].name = Heading))

\* the set of the names in columns_to_remove
Removed == {columns_to_remove[i] : i \in 1..Len(columns_to_remove)}

\* the positions of the header whose name is not to be removed, and the
\* j-th of them from the left
Kept(h) == {i \in 1..Len(h) : h[i] \notin Removed}
KeptAt(h, j) == CHOOSE k \in Kept(h) : Cardinality({x \in Kept(h) : x <= k}) = j

\* C11: drop raises no error; the trimmed header is the source header
\* without the listed names, the other names in their order; the trimmed
\* table has the same rows in the same order, each without the fields at
\* the removed positions; a table with none of the names is unchanged.
C11_TrimCorrect ==
    tpc = "written" =>
        LET h == probes_df.header
            t == trimmed_probes_df.df
            n == Cardinality(Kept(h))
        IN /\ trimmed_probes_df.ok
           /\ Len(t.header) = n
           /\ \A j \in 1..n : t.header[j] = h[KeptAt(h, j)]
           /\ Len(t.rows) = Len(probes_df.rows)
           /\ \A r \in 1..Len(t.rows) :
                 /\ Len(t.rows[r]) = n
                 /\ \A j \in 1..n : t.rows[r][j] = probes_df.rows[r][KeptAt(h, j)]
           /\ (n = Len(h)) => t = probes_df

\* C11 witness: a table of two different rows lost a column that stood
\* left of a kept one, while another listed name was not in its header
C11_Witness ==
    /\ tpc = "written"
    /\ Len(probes_df.rows) = 2
    /\ probes_df.rows[1] # probes_df.rows[2]
    /\ Len(probes_df.header) = 3
    /\ probes_df.header[1] = <<"Definition">>
    /\ probes_df.header[2] = <<"ID">>
    /\ \A i \in 1..3 : probes_df.header[i] # <<"Synonyms">>
    /\ Len(trimmed_probes_df.df.header) = 2

\* the header lines of the file: their positions, the name each carries,
\* and the positions of those whose name is not empty
HeaderPositions == {i \in 1..Len(file_lines) : startswith(file_lines[i], <<"[">>)}
NameAt(i) == strip(file_lines[i], {"[", "]", NL})
NamedPositions == {i \in HeaderPositions : NameAt(i) # <<>>}
FirstPosition(name) ==
    CHOOSE i \in NamedPositions :
        NameAt(i) = name /\ \A j \in NamedPositions : NameAt(j) = name => i <= j

\* C12: when process_file has parsed a file, dfs holds its sections in
\* the order in which their header lines first occur in the file.
C12_FirstSeenOrder ==
    ppc = "done" =>
        LET keys == DictKeys(dfs) IN
        /\ \A a \in 1..Len(keys) : \E i \in NamedPositions : NameAt(i) = keys[a]
        /\ \A a, b \in 1..Len(keys) :
              a < b => FirstPosition(keys[a]) < FirstPosition(keys[b])

\* C12 witness: a parsed file with two sections, the first of which
\* occurs a second time after the other
C12_Witness ==
    /\ ppc = "done"
    /\ Len(dfs) = 2
    /\ Len(finalized) = 3
    /\ finalized[1].name = finalized[3].name

\* the k-th header line with a non-empty name, and the position of the
\* header line that follows position p (the end of the file if none does)
NamedPosition(k) ==
    CHOOSE p \in NamedPositions : Cardinality({x \in NamedPositions : x <= p}) = k
NextHeader(p) ==
    IF \E h \in HeaderPositions : h > p
    THEN CHOOSE h \in HeaderPositions :
             h > p /\ \A g \in HeaderPositions : g > p => h <= g
    ELSE Len(file_lines) + 1

\* C14: the buffer parsed for a section holds exactly the lines between
\* the section's header line and the next header line (or the end of the
\* file), in file order; nothing else reaches any buffer.
C14_BufferIsTheSectionBody ==
    \A k \in 1..Len(finalized) :
        LET p == NamedPosition(k) IN
        /\ finalized[k].name = NameAt(p)
        /\ finalized[k].buf = SubSeq(file_lines, p + 1, NextHeader(p) - 1)

\* C14 witness: a parsed file that starts with a line outside any section
\* and has two sections with a body each
C14_Witness ==
    /\ ppc = "done"
    /\ Len(file_lines) >= 1
    /\ ~startswith(file_lines[1], <<"[">>)
    /\ Len(finalized) = 2
    /\ finalized[1].buf # <<>>
    /\ finalized[2].buf # <<>>
    /\ finalized[1].buf # finalized[2].buf

\* the number of lines read so far, and the last header line among them
LinesRead == Len(file_lines) - Len(lines)
LastHeaderRead ==
    CHOOSE h \in HeaderPositions :
        h <= LinesRead /\ \A g \in HeaderPositions : g <= LinesRead => g <= h

\* C15: once a line starting with '[' has been read, a section is open:
\* write_key is a name that counts as set, and the buffer holds the lines
\* read since that header line.
C15_HeaderOpensSection ==
    (ppc = "loop" /\ \E h \in HeaderPositions : h <= LinesRead)
        => /\ Truthy(write_key)
           /\ fio = SubSeq(file_lines, LastHeaderRead + 1, LinesRead)

Top == TaskOf("DeleteOriginalData").processed_data_dir

\* C16: when DeleteOriginalData.run is called on an existing directory
\* and no file below it is locked, the directory is gone afterwards, also
\* when it was empty at the start.
C16_CleanupRemovesRoot ==
    \A e \in Log :
        ( /\ e.cls = "DeleteOriginalData"
          /\ Top \in e.before.dirs
          /\ ~\E f \in locked : f \in e.before.files /\ Under(Top, f) )
        => Top \notin e.after.dirs

\* the trimmed table that belongs to probes file f
TrimmedFor(f) ==
    join(probes_data,
         SubSeq(basename(f), 1, Len(basename(f)) - 3)
             \o <<"_trimmed", "_", "Probes", ".tsv">>)

\* C17: whenever the sentinel exists after a call of TrimProbesTable.run,
\* also after one that raised part-way, a trimmed table exists for every
\* probes file the run found.
C17_SentinelIsWrittenLast ==
    \A e \in Log :
        (e.cls = "TrimProbesTable" /\ TrimSentinel \in e.after.files)
            => \A f \in e.before.files :
                  ( /\ Under(TaskOf("TrimProbesTable").processed_data_dir, f)
                    /\ IsProbesFile(f) )
                  => TrimmedFor(f) \in e.after.files

\* C17 witness: after an invocation in which TrimProbesTable.run raised
\* having written one of two trimmed tables, a later run wrote both and
\* the sentinel
C17_Witness ==
    /\ Len(hist) >= 1
    /\ ~hist[Len(hist)].ok
    /\ \E e \in Log :
          /\ e.cls = "TrimProbesTable"
          /\ e.ok
          /\ TrimSentinel \in e.after.files
          /\ Cardinality({f \in e.before.files : IsTrimmedTable(f)}) = 1
          /\ Cardinality({f \in e.after.files : IsTrimmedTable(f)}) = 2

\* no call of DeleteOriginalData.run so far, in this or an earlier invocation
DeleteNeverRan ==
    /\ \A e \in Log : e.cls # "DeleteOriginalData"
    /\ \A i \in 1..Len(hist) : \A j \in 1..Len(hist[i].ran) :
          hist[i].ran[j] # "DeleteOriginalData"

\* the completion markers are downward closed along the chain
MarkersClosed ==
    /\ TrimSentinel \in files => processed_data \in dirs
    /\ processed_data \in dirs => ArchivePath \in files

\* C18: in every reachable state the Target of TrimProbesTable exists only
\* if that of ExtractAndProcessFiles exists, which exists only if that of
\* DownloadDataset exists.
C18_MarkersDownwardClosed == MarkersClosed

\* C18 as amended: the same, in every reachable state in which
\* DeleteOriginalData.run has not been called yet.
C18_MarkersClosedBeforeCleanup == DeleteNeverRan => MarkersClosed

\* C18 witness: all three markers exist and DeleteOriginalData is about
\* to run for the first time
C18_Witness ==
    /\ DeleteNeverRan
    /\ TrimSentinel \in files
    /\ processed_data \in dirs
    /\ ArchivePath \in files
    /\ phase = "running"
    /\ status["DeleteOriginalData"] = "pending"

\* C19: DeleteOriginalData.run leaves every file and directory that is
\* not the directory it walks or below it as it was, and with them the
\* archive when it lies elsewhere.
C19_CleanupStaysInsideItsTree ==
    \A e \in Log :
        e.cls = "DeleteOriginalData" =>
            LET Outside(ps) == {p \in ps : p # Top /\ ~Under(Top, p)} IN
            /\ Outside(e.after.dirs) = Outside(e.before.dirs)
            /\ Outside(e.after.files) = Outside(e.before.files)
            /\ ~Under(Top, ArchivePath) => e.after.tar = e.before.tar

\* C19 witness: a cleanup removed files and its directory while the
\* archive in the download directory stayed
C19_Witness ==
    \E e \in Log :
        /\ e.cls = "DeleteOriginalData"
        /\ Top \in e.before.dirs
        /\ Top \notin e.after.dirs
        /\ e.before.files \ e.after.files # {}
        /\ ArchivePath \in e.after.files
        /\ e.after.tar # <<>>

====
